---- MODULE Spec2Model ----
(***************************************************************************)
(* LogKV: a three-node cluster of Server processes (src/src/server.cpp),   *)
(* each with a write-ahead log (src/src/wal.cpp), a KV map                 *)
(* (src/src/kv_store.cpp) and, on the node started as leader, a            *)
(* Replicator (src/src/replication.cpp).                                   *)
(*                                                                         *)
(* The WriteAheadLog and the SnapshotManager (src/src/snapshot.cpp) of one *)
(* node are also driven alone, through their interfaces, by the            *)
(* specifications SpecWal, SpecMeta, SpecNode, SpecCompact and SpecSnap.   *)
(*                                                                         *)
(* server.cpp takes no lock: the election thread, the heartbeat sender and *)
(* every per-connection handler thread of a node run concurrently on the   *)
(* node's fields.  The model interleaves them at the points where the code *)
(* blocks on the network or re-reads a shared field.                       *)
(***************************************************************************)
EXTENDS Integers, Sequences, FiniteSets, TLC

(* ------------------------------ bounds -------------------------------- *)
MaxTerm == 2
MaxPuts == 2
MaxRestarts == 1
\* the single node of the WAL and snapshot specifications: the longest log
\* and the largest entry or snapshot index a caller passes
MaxLogLen == 3
MaxIndex == 3

\* the quorum tests taken alone: the largest number of peers of a node
MaxPeers == 9

(* --------------------------- configuration ---------------------------- *)
Nodes == {1, 2, 3}
Keys == {"x"}
\* the value the i-th client PUT writes (every PUT writes a value of its own)
PutValue(i) == "v" \o ToString(i)
Values == {PutValue(i) : i \in 1..MaxPuts}

\* voted_for_ = -1 means "no vote" (server.cpp:14, server.cpp:197)
NONE == -1
\* value of current_term_ in a freshly constructed Server
InitialTerm == 0

\* The role each process is started with: node 1 with the leader hint, the
\* others through main_follower.cpp.
RoleHint(n) == IF n = 1 THEN "LEADER" ELSE "FOLLOWER"

\* peers_ / followers_ of node n, in configuration order
Peers(n) == IF n = 1 THEN <<2, 3>> ELSE IF n = 2 THEN <<1, 3>> ELSE <<1, 2>>

\* Server::Server creates a Replicator only when constructed as LEADER
HasReplicator(n) == RoleHint(n) = "LEADER"

\* Server::start launches the heartbeat monitor only when role_ is FOLLOWER
HasMonitor(n) == RoleHint(n) = "FOLLOWER"

VARIABLES
    role,          \* role_ of each node
    current_term,  \* current_term_ of each node
    voted_for,     \* voted_for_ of each node
    store,         \* store_ of each node: key -> value
    wal,           \* wal_ of each node: cache, file, first index, metadata file
    elec,          \* position of each node's election thread in startElection
    rpcs,          \* REQUEST_VOTE handler threads in progress
    puts,          \* client PUT handler threads in progress
    hbSenders,     \* number of running heartbeat sender threads per node
    grants,        \* history: every vote cast (self votes and VOTE_GRANTED replies)
    replies,       \* history: the replies sent to client PUTs, in order
    nputs,         \* number of client PUTs issued so far
    restarts,      \* number of crash/restarts so far
    \* one node taken alone, driven through the interfaces of its
    \* WriteAheadLog and its SnapshotManager
    nodeWal,       \* the WriteAheadLog of the node
    kv,            \* the KV map of the node
    snapdir,       \* the snapshot files of the node: index -> contents
    temp,          \* the file temp_<server_id>.snap
    applied,       \* history: every operation applied to kv, in order
    base,          \* history: index and term of the last snapshot installed
                   \* in the log or of the last prefix compacted away
    made,          \* history: the index of every snapshot file ever put in
                   \* place by createSnapshot or writeSnapshotChunk
    call,          \* history: the last call made, its arguments and result
    install        \* the chunked snapshot transfer from a leader to the node
                   \* that is in progress: the leader's snapshot files, the
                   \* next offset, whether every write_chunk succeeded

clusterVars == <<role, current_term, voted_for, store, wal, elec, rpcs, puts,
                 hbSenders, grants, replies, nputs, restarts>>

nodeVars == <<nodeWal, kv, snapdir, temp, applied, base, made, call, install>>

vars == <<clusterVars, nodeVars>>

(* ------------------------------ KVStore ------------------------------- *)
EmptyStore == [k \in {} |-> "v1"]

KVPut(s, k, v) == [x \in DOMAIN s \cup {k} |-> IF x = k THEN v ELSE s[x]]

KVGet(s, k) == IF k \in DOMAIN s THEN s[k] ELSE "NOT_FOUND"

(* --------------------------- WriteAheadLog ---------------------------- *)
\* A file of the node's directory: absent, or present with its contents (a
\* sequence of the tokens written to it)
NoFile == [exists |-> FALSE, text |-> <<>>]

FileOf(tokens) == [exists |-> TRUE, text |-> tokens]

LogEntry(idx, t, k, v) ==
    [index |-> idx, term |-> t, operation |-> "PUT", key |-> k, value |-> v]

\* A WAL on a fresh disk (no log file, no metadata file)
EmptyWal == [log_cache |-> <<>>, file |-> <<>>, first_log_index |-> 1, meta |-> NoFile]

appendEntry(w, e) ==
    [w EXCEPT !.file = Append(@, e), !.log_cache = Append(@, e)]

\* getEntry(index, entry): the result and the value of the out-parameter
\* (`out` is what the caller's variable held before the call)
getEntry(w, index, out) ==
    IF index < 1 \/ index > Len(w.log_cache)
    THEN [found |-> FALSE, entry |-> out]
    ELSE [found |-> TRUE, entry |-> w.log_cache[index]]

getLastLogInfo(w) ==
    IF w.log_cache = <<>>
    THEN [index |-> 0, term |-> 0]
    ELSE [index |-> w.log_cache[Len(w.log_cache)].index,
          term |-> w.log_cache[Len(w.log_cache)].term]

\* appendPut(key, value) as server.cpp calls it: the next entry of the log,
\* stamped with the term of the node that appends it.
appendPut(w, t, k, v) == appendEntry(w, LogEntry(getLastLogInfo(w).index + 1, t, k, v))

\* persistCache: the log file is opened with ios::trunc and the cache is
\* written to it
persistCache(w) == [w EXCEPT !.file = w.log_cache]

\* The disk when the process dies inside persistCache after `written`
\* entries of the cache have reached the truncated file
persistCacheCut(w, written) == [w EXCEPT !.file = SubSeq(w.log_cache, 1, written)]

truncateFromCache(w, index) ==
    [w EXCEPT !.log_cache = SubSeq(@, 1, index - 1)]

truncateFrom(w, index) ==
    IF index < 1 \/ index > Len(w.log_cache)
    THEN w
    ELSE persistCache(truncateFromCache(w, index))

getEntriesFrom(w, start_index) ==
    IF start_index < 1 \/ start_index > Len(w.log_cache)
    THEN <<>>
    ELSE SubSeq(w.log_cache, start_index, Len(w.log_cache))

saveMetadata(w, t, v) == [w EXCEPT !.meta = FileOf(<<t, v>>)]

\* The disk when the process dies inside saveMetadata: the ofstream
\* constructor has truncated the metadata file, the line is not written
saveMetadataCut(w) == [w EXCEPT !.meta = FileOf(<<>>)]

\* loadMetadata(current_term, voted_for); `out` is what the caller's two
\* variables held before the call.  On an empty file the first extraction
\* fails and stores 0, the second is not attempted.
loadMetadata(w, out) ==
    IF ~w.meta.exists THEN [current_term |-> 0, voted_for |-> NONE]
    ELSE IF w.meta.text = <<>>
         THEN [current_term |-> 0, voted_for |-> out.voted_for]
         ELSE [current_term |-> w.meta.text[1], voted_for |-> w.meta.text[2]]

\* the constructor: rebuildCache reads the file back; first_log_index_ is
\* an in-memory field and starts at its default again
rebuildCache(w) == [w EXCEPT !.log_cache = w.file, !.first_log_index = 1]

RECURSIVE replay(_, _)
replay(s, log) ==
    IF log = <<>> THEN s
    ELSE replay(IF Head(log).operation = "PUT"
                THEN KVPut(s, Head(log).key, Head(log).value)
                ELSE s,
                Tail(log))

\* discardEntriesBefore: the position in the cache of the entry whose index
\* is snapshot_index (0: no such entry)
cachePosition(w, snapshot_index) ==
    IF \E i \in DOMAIN w.log_cache : w.log_cache[i].index = snapshot_index
    THEN CHOOSE i \in DOMAIN w.log_cache :
             /\ w.log_cache[i].index = snapshot_index
             /\ \A j \in 1..(i - 1) : w.log_cache[j].index # snapshot_index
    ELSE 0

discardEntriesBeforeCache(w, snapshot_index) ==
    LET pos == cachePosition(w, snapshot_index)
        rest == SubSeq(w.log_cache, pos + 1, Len(w.log_cache))
    IN [w EXCEPT !.log_cache = rest,
                 !.first_log_index = IF rest # <<>> THEN rest[1].index
                                     ELSE snapshot_index + 1]

discardEntriesBefore(w, snapshot_index) ==
    IF cachePosition(w, snapshot_index) = 0
    THEN w
    ELSE persistCache(discardEntriesBeforeCache(w, snapshot_index))

getFirstLogIndex(w) ==
    IF w.log_cache = <<>> THEN w.first_log_index ELSE w.log_cache[1].index

installSnapshotCache(w, last_included_index) ==
    [w EXCEPT !.log_cache = <<>>, !.first_log_index = last_included_index + 1]

installSnapshot(w, last_included_index, last_included_term) ==
    saveMetadata(persistCache(installSnapshotCache(w, last_included_index)),
                 last_included_term, NONE)

(* --------------------------- SnapshotManager -------------------------- *)
Magic == "LOGKV_SNAPSHOT_V1"

\* createSnapshot(..) ends with cleanupOldSnapshots(2)
KeepCount == 2

\* the number of tokens of a snapshot file one chunk carries
ChunkSize == 2

\* a byte of a file that was never written (the file was extended by a
\* write past its end)
Hole == "\\0"

\* operator>> on a token that is not a number stores 0
ParseInt(s) ==
    IF \E i \in 0..(MaxIndex + MaxLogLen) : ToString(i) = s
    THEN CHOOSE i \in 0..(MaxIndex + MaxLogLen) : ToString(i) = s
    ELSE 0

Tok(text, i) == IF i \in DOMAIN text THEN text[i] ELSE ""

\* the keys of a map in the order the loop of createSnapshot visits them
RECURSIVE KeyOrder(_)
KeyOrder(S) ==
    IF S = {} THEN <<>>
    ELSE LET k == CHOOSE x \in S : TRUE IN <<k>> \o KeyOrder(S \ {k})

RECURSIVE PairTokens(_, _)
PairTokens(data, ks) ==
    IF ks = <<>> THEN <<>>
    ELSE <<Head(ks), data[Head(ks)]>> \o PairTokens(data, Tail(ks))

\* the file createSnapshot writes: the magic line, the metadata line, then
\* every key and value
SnapshotText(data, last_index, last_term) ==
    <<Magic, ToString(last_index), ToString(last_term),
      ToString(Cardinality(DOMAIN data))>> \o PairTokens(data, KeyOrder(DOMAIN data))

\* the snapshot files with a parsed index >= 0, all but the keep_count
\* highest deleted
cleanupOldSnapshots(dir, keep_count) ==
    LET kept == {i \in DOMAIN dir :
                    Cardinality({j \in DOMAIN dir : j > i}) < keep_count}
    IN [i \in kept |-> dir[i]]

\* a successful createSnapshot: temp file written, renamed to
\* snapshot_<id>_idx_<last_index>.snap, old snapshots cleaned up
createSnapshot(dir, data, last_index, last_term) ==
    cleanupOldSnapshots(
        [i \in DOMAIN dir \cup {last_index} |->
            IF i = last_index THEN SnapshotText(data, last_index, last_term)
            ELSE dir[i]],
        KeepCount)

\* the index of the file findLatestSnapshot returns (-1: no file)
findLatestSnapshot(dir) ==
    IF DOMAIN dir = {} THEN -1
    ELSE CHOOSE i \in DOMAIN dir : \A j \in DOMAIN dir : j <= i

RECURSIVE loadPairs(_, _)
loadPairs(text, n) ==
    IF n = 0 THEN EmptyStore
    ELSE KVPut(loadPairs(text, n - 1), Tok(text, 3 + 2 * n), Tok(text, 4 + 2 * n))

NoMetadata == [last_included_index |-> 0, last_included_term |-> 0, data_size |-> 0]

loadSnapshot(dir) ==
    LET latest == findLatestSnapshot(dir) IN
    IF latest = -1 \/ Tok(dir[latest], 1) # Magic
    THEN [ok |-> FALSE, data |-> EmptyStore, metadata |-> NoMetadata]
    ELSE LET text == dir[latest]
             size == ParseInt(Tok(text, 4))
         IN [ok |-> TRUE,
             data |-> loadPairs(text, size),
             metadata |-> [last_included_index |-> ParseInt(Tok(text, 2)),
                           last_included_term |-> ParseInt(Tok(text, 3)),
                           data_size |-> size]]

\* readSnapshotChunk(offset, chunk_size, data): the tokens read
readSnapshotChunk(dir, offset, chunk_size) ==
    LET latest == findLatestSnapshot(dir) IN
    IF latest = -1 \/ offset >= Len(dir[latest]) THEN <<>>
    ELSE SubSeq(dir[latest], offset + 1,
                IF offset + chunk_size < Len(dir[latest])
                THEN offset + chunk_size ELSE Len(dir[latest]))

\* a file after `data` is written at `offset`
writeAt(text, offset, data) ==
    LET end == IF Len(text) > offset + Len(data) THEN Len(text)
               ELSE offset + Len(data)
    IN [i \in 1..end |->
           IF i > offset /\ i <= offset + Len(data) THEN data[i - offset]
           ELSE IF i <= Len(text) THEN text[i] ELSE Hole]

\* writeSnapshotChunk(offset, data, is_last): the result, the snapshot files
\* and the temp file after the call. The temp file is opened as a
\* std::fstream with the mode binary | trunc when offset is 0, which is no
\* file open mode (neither in nor out): the open fails. Any other offset
\* opens it with in | out, which fails when the file does not exist.
writeSnapshotChunk(dir, tmp, offset, data, is_last) ==
    IF offset = 0 \/ ~tmp.exists
    THEN [ok |-> FALSE, dir |-> dir, temp |-> tmp]
    ELSE LET text == writeAt(tmp.text, offset, data)
             last_index == ParseInt(Tok(text, 2))
         IN IF ~is_last
            THEN [ok |-> TRUE, dir |-> dir, temp |-> FileOf(text)]
            ELSE [ok |-> TRUE,
                  dir |-> [i \in DOMAIN dir \cup {last_index} |->
                              IF i = last_index THEN text ELSE dir[i]],
                  temp |-> NoFile]

(* ----------------------------- Replicator ----------------------------- *)
\* The line replicatePut writes: "REPL_PUT <index> <key> <value>"
ReplPutMessage(index, k, v) == <<"REPL_PUT", ToString(index), k, v>>

\* handleClient reads a REPL_PUT line as: iss >> cmd; iss >> key >> value
ParseReplPut(msg) == [key |-> msg[2], value |-> msg[3]]

\* a replicatePut that also succeeds with one acknowledgement fewer
replicatePutAtHalf(followers, acks) == acks >= (followers + 1) \div 2

\* replicatePut's result with `followers` followers and `acks`
\* acknowledgements (the leader counted)
replicatePutResult(followers, acks) == acks > (followers + 1) \div 2

\* replicatePut's result for `acks` acknowledgements (the leader counted)
replicateSuccess(n, acks) == replicatePutResult(Len(Peers(n)), acks)

(* ------------------------------- Server ------------------------------- *)
\* startElection: majority = (peers + self) / 2 + 1
majorityOf(peers) == (peers + 1) \div 2 + 1

\* startElection: if (votes >= majority)
electionWon(peers, votes) == votes >= majorityOf(peers)

Majority(n) == majorityOf(Len(Peers(n)))

IdleElection == [pc |-> "idle", votes |-> 0, i |-> 0]

\* an empty snapshot directory
NoSnapshots == [i \in {} |-> <<>>]

\* no call made yet
\* no chunked transfer in progress
NoInstall == [active |-> FALSE, from |-> NoSnapshots, next |-> 0, ok |-> TRUE]

NoCall == [op |-> "none", arg |-> <<>>, ret |-> <<>>]

\* every variable but `call` after construction
InitRest ==
    /\ role = [n \in Nodes |-> RoleHint(n)]
    /\ current_term = [n \in Nodes |-> InitialTerm]
    /\ voted_for = [n \in Nodes |-> NONE]
    /\ store = [n \in Nodes |-> EmptyStore]
    /\ wal = [n \in Nodes |-> EmptyWal]
    /\ elec = [n \in Nodes |-> IdleElection]
    /\ rpcs = {}
    /\ puts = {}
    /\ hbSenders = [n \in Nodes |-> IF RoleHint(n) = "LEADER" THEN 1 ELSE 0]
    /\ grants = {}
    /\ replies = <<>>
    /\ nputs = 0
    /\ restarts = 0
    /\ nodeWal = EmptyWal
    /\ kv = EmptyStore
    /\ snapdir = NoSnapshots
    /\ temp = NoFile
    /\ applied = <<>>
    /\ base = [index |-> 0, term |-> 0]
    /\ made = {}
    /\ install = NoInstall

Init ==
    /\ InitRest
    /\ call = NoCall

\* a stepDown that leaves current_term_ alone
stepDownKeepTerm(n, new_term) == current_term[n]

\* stepDown(new_term) on node n: the new values of the three fields
stepDownTerm(n, new_term) ==
    IF new_term > current_term[n] THEN new_term ELSE current_term[n]

\* The heartbeat monitor finds the deadline passed while role_ is FOLLOWER
\* and enters startElection: term++, vote for self, become CANDIDATE.
StartElection(n) ==
    /\ UNCHANGED nodeVars
    /\ HasMonitor(n)
    /\ elec[n].pc = "idle"
    /\ role[n] = "FOLLOWER"
    /\ current_term[n] < MaxTerm
    /\ current_term' = [current_term EXCEPT ![n] = @ + 1]
    /\ voted_for' = [voted_for EXCEPT ![n] = n]
    /\ role' = [role EXCEPT ![n] = "CANDIDATE"]
    /\ elec' = [elec EXCEPT ![n] = [pc |-> "loop", votes |-> 1, i |-> 1]]
    /\ grants' = grants \cup {[voter |-> n, term |-> current_term[n] + 1, cand |-> n]}
    /\ UNCHANGED <<store, wal, rpcs, puts, hbSenders, replies, nputs, restarts>>

\* startElection: socket/connect to the next peer fails, continue
ElectionConnectFail(n) ==
    /\ UNCHANGED nodeVars
    /\ elec[n].pc = "loop"
    /\ elec[n].i <= Len(Peers(n))
    /\ elec' = [elec EXCEPT ![n].i = @ + 1]
    /\ UNCHANGED <<role, current_term, voted_for, store, wal, rpcs, puts,
                   hbSenders, grants, replies, nputs, restarts>>

\* startElection: REQUEST_VOTE <current_term_> <server_id_> is written to the
\* next peer (the term is read when the line is built) and the thread blocks
\* in read(); the peer starts a handler thread.
ElectionSend(n) ==
    /\ UNCHANGED nodeVars
    /\ elec[n].pc = "loop"
    /\ elec[n].i <= Len(Peers(n))
    /\ rpcs' = rpcs \cup {[at |-> Peers(n)[elec[n].i], from |-> n,
                           term |-> current_term[n], pc |-> "start", live |-> TRUE]}
    /\ elec' = [elec EXCEPT ![n].pc = "wait"]
    /\ UNCHANGED <<role, current_term, voted_for, store, wal, puts,
                   hbSenders, grants, replies, nputs, restarts>>

\* The handler writes its reply and the candidate's read() returns it.
\* A reply to a candidate process that has since been restarted is lost.
Reply(h, granted) ==
    /\ rpcs' = rpcs \ {h}
    /\ IF h.live /\ elec[h.from].pc = "wait"
       THEN elec' = [elec EXCEPT ![h.from] =
                        [pc |-> "loop",
                         votes |-> @.votes + (IF granted THEN 1 ELSE 0),
                         i |-> @.i + 1]]
       ELSE UNCHANGED elec

\* handleClient, REQUEST_VOTE: step down on a higher term, deny a lower one
RequestVoteBegin(h) ==
    LET n == h.at
        higher == h.term > current_term[n]
    IN /\ UNCHANGED nodeVars
       /\ h \in rpcs
       /\ h.pc = "start"
       /\ current_term' = [current_term EXCEPT ![n] = stepDownTerm(n, h.term)]
       /\ role' = IF higher THEN [role EXCEPT ![n] = "FOLLOWER"] ELSE role
       /\ voted_for' = IF higher THEN [voted_for EXCEPT ![n] = NONE] ELSE voted_for
       /\ IF h.term < stepDownTerm(n, h.term)
          THEN Reply(h, FALSE)
          ELSE /\ rpcs' = (rpcs \ {h}) \cup {[h EXCEPT !.pc = "check"]}
               /\ UNCHANGED elec
       /\ UNCHANGED <<store, wal, puts, hbSenders, grants, replies, nputs, restarts>>

\* handleClient, REQUEST_VOTE: if (voted_for_ == -1)
RequestVoteCheck(h) ==
    /\ UNCHANGED nodeVars
    /\ h \in rpcs
    /\ h.pc = "check"
    /\ IF voted_for[h.at] = NONE
       THEN /\ rpcs' = (rpcs \ {h}) \cup {[h EXCEPT !.pc = "grant"]}
            /\ UNCHANGED elec
       ELSE Reply(h, FALSE)
    /\ UNCHANGED <<role, current_term, voted_for, store, wal, puts,
                   hbSenders, grants, replies, nputs, restarts>>

\* handleClient, REQUEST_VOTE: voted_for_ = candidate_id; VOTE_GRANTED
RequestVoteGrant(h) ==
    /\ UNCHANGED nodeVars
    /\ h \in rpcs
    /\ h.pc = "grant"
    /\ voted_for' = [voted_for EXCEPT ![h.at] = h.from]
    /\ grants' = grants \cup {[voter |-> h.at, term |-> h.term, cand |-> h.from]}
    /\ Reply(h, TRUE)
    /\ UNCHANGED <<role, current_term, store, wal, puts, hbSenders,
                   replies, nputs, restarts>>

\* startElection after the loop: LEADER on a majority, FOLLOWER otherwise
ElectionDecide(n) ==
    /\ UNCHANGED nodeVars
    /\ elec[n].pc = "loop"
    /\ elec[n].i > Len(Peers(n))
    /\ IF elec[n].votes >= Majority(n)
       THEN /\ role' = [role EXCEPT ![n] = "LEADER"]
            /\ hbSenders' = [hbSenders EXCEPT ![n] = @ + 1]
       ELSE /\ role' = [role EXCEPT ![n] = "FOLLOWER"]
            /\ UNCHANGED hbSenders
    /\ elec' = [elec EXCEPT ![n] = IdleElection]
    /\ UNCHANGED <<current_term, voted_for, store, wal, rpcs, puts,
                   grants, replies, nputs, restarts>>

\* The heartbeat sender of a leader writes HEARTBEAT <current_term_> to peer p;
\* handleClient on p: step down on a higher term, re-arm the deadline on an
\* equal one, answer OK.
Heartbeat(n, p) ==
    LET t == current_term[n]
        higher == t > current_term[p]
    IN /\ UNCHANGED nodeVars
       /\ hbSenders[n] > 0
       /\ role[n] = "LEADER"
       /\ p # n
       /\ current_term' = [current_term EXCEPT ![p] = stepDownTerm(p, t)]
       /\ role' = IF higher THEN [role EXCEPT ![p] = "FOLLOWER"] ELSE role
       /\ voted_for' = IF higher THEN [voted_for EXCEPT ![p] = NONE] ELSE voted_for
       /\ UNCHANGED <<store, wal, elec, rpcs, puts, hbSenders, grants,
                      replies, nputs, restarts>>

\* A heartbeat sender thread finds role_ != LEADER at the top of its loop
\* and ends.
HeartbeatSenderExit(n) ==
    /\ UNCHANGED nodeVars
    /\ hbSenders[n] > 0
    /\ role[n] # "LEADER"
    /\ hbSenders' = [hbSenders EXCEPT ![n] = @ - 1]
    /\ UNCHANGED <<role, current_term, voted_for, store, wal, elec, rpcs, puts,
                   grants, replies, nputs, restarts>>

\* The reply a client PUT thread sends, as the history records it
PutReplyRecord(p, resp) ==
    [id |-> p.id, at |-> p.at, key |-> p.key, value |-> p.value, resp |-> resp,
     acks |-> p.acks, roleSeen |-> p.roleSeen]

\* handleClient, PUT: NOT_LEADER when role_ is FOLLOWER; otherwise
\* wal_.appendPut and store_.put, then replicatePut when there is a
\* replicator_, then OK.
Put(n, k, v) ==
    LET w == appendPut(wal[n], current_term[n], k, v)
        p == [id |-> nputs + 1, at |-> n, key |-> k, value |-> v,
              index |-> getLastLogInfo(w).index,
              i |-> 1, acks |-> 1, roleSeen |-> role[n]]
    IN /\ UNCHANGED nodeVars
       /\ nputs < MaxPuts
       /\ v = PutValue(nputs + 1)
       /\ nputs' = nputs + 1
       /\ IF role[n] = "FOLLOWER"
          THEN /\ replies' = Append(replies,
                      PutReplyRecord([p EXCEPT !.acks = 0], "NOT_LEADER"))
               /\ UNCHANGED <<wal, store, puts>>
          ELSE /\ wal' = [wal EXCEPT ![n] = w]
               /\ store' = [store EXCEPT ![n] = KVPut(@, k, v)]
               /\ IF HasReplicator(n) /\ Len(Peers(n)) > 0
                  THEN puts' = puts \cup {p} /\ UNCHANGED replies
                  ELSE replies' = Append(replies, PutReplyRecord(p, "OK"))
                       /\ UNCHANGED puts
       /\ UNCHANGED <<role, current_term, voted_for, elec, rpcs, hbSenders,
                      grants, restarts>>

\* replicatePut moves on to the next follower; after the last one it
\* returns, its result is not looked at, and handleClient answers OK.
NextFollower(p, acked) ==
    LET q == [p EXCEPT !.i = @ + 1, !.acks = IF acked THEN @ + 1 ELSE @]
    IN IF q.i > Len(Peers(p.at))
       THEN /\ puts' = puts \ {p}
            /\ replies' = Append(replies, PutReplyRecord(q, "OK"))
       ELSE /\ puts' = (puts \ {p}) \cup {q}
            /\ UNCHANGED replies

\* replicatePut: socket/connect to the next follower fails, continue
ReplicateConnectFail(p) ==
    /\ UNCHANGED nodeVars
    /\ p \in puts
    /\ NextFollower(p, FALSE)
    /\ UNCHANGED <<role, current_term, voted_for, store, wal, elec, rpcs,
                   hbSenders, grants, nputs, restarts>>

\* replicatePut writes the REPL_PUT line to the next follower; handleClient
\* there reads key and value from it, appends, applies and answers ACK.
ReplicateSend(p) ==
    LET f == Peers(p.at)[p.i]
        m == ParseReplPut(ReplPutMessage(p.index, p.key, p.value))
    IN /\ UNCHANGED nodeVars
       /\ p \in puts
       /\ wal' = [wal EXCEPT ![f] = appendPut(@, current_term[f], m.key, m.value)]
       /\ store' = [store EXCEPT ![f] = KVPut(@, m.key, m.value)]
       /\ NextFollower(p, TRUE)
       /\ UNCHANGED <<role, current_term, voted_for, elec, rpcs, hbSenders,
                      grants, nputs, restarts>>

\* The process of node n is killed and started again on the same files:
\* Server::Server rebuilds the WAL cache and replays it into an empty store;
\* term, vote and role start from their initial values.  Peers blocked in a
\* read() on this node see the connection close; replies to the old process
\* are lost.
Restart(n) ==
    LET w == rebuildCache(wal[n])
    IN /\ UNCHANGED nodeVars
       /\ restarts < MaxRestarts
       /\ restarts' = restarts + 1
       /\ role' = [role EXCEPT ![n] = RoleHint(n)]
       /\ current_term' = [current_term EXCEPT ![n] = InitialTerm]
       /\ voted_for' = [voted_for EXCEPT ![n] = NONE]
       /\ wal' = [wal EXCEPT ![n] = w]
       /\ store' = [store EXCEPT ![n] = replay(EmptyStore, w.log_cache)]
       /\ hbSenders' = [hbSenders EXCEPT ![n] = IF RoleHint(n) = "LEADER" THEN 1 ELSE 0]
       /\ rpcs' = {IF h.from = n THEN [h EXCEPT !.live = FALSE] ELSE h :
                       h \in {g \in rpcs : g.at # n}}
       /\ elec' = [c \in Nodes |->
                     IF c = n THEN IdleElection
                     ELSE IF \E h \in rpcs : h.at = n /\ h.from = c /\ h.live
                          THEN [elec[c] EXCEPT !.pc = "loop", !.i = @ + 1]
                          ELSE elec[c]]
       /\ puts' = {p \in puts : p.at # n}
       /\ UNCHANGED <<grants, replies, nputs>>

(* ------------------- one node: the WAL interface ---------------------- *)
\* the entries a caller passes to appendEntry
Entries == {LogEntry(i, t, "x", PutValue(1)) : i \in 1..MaxIndex, t \in 1..MaxTerm}

\* the LogEntry variable a caller of getEntry passes in
NoEntry == LogEntry(0, 0, "", "")

Called(op, arg, ret) == [op |-> op, arg |-> arg, ret |-> ret]

WalAppendEntry(e) ==
    /\ UNCHANGED <<clusterVars, install>>
    /\ Len(nodeWal.log_cache) < MaxLogLen
    /\ nodeWal' = appendEntry(nodeWal, e)
    /\ call' = Called("appendEntry", <<e.index, e.term>>, <<>>)
    /\ UNCHANGED <<kv, snapdir, temp, applied, base, made>>

WalGetEntry(index) ==
    /\ UNCHANGED <<clusterVars, install>>
    /\ call' = Called("getEntry", <<index>>, getEntry(nodeWal, index, NoEntry))
    /\ UNCHANGED <<nodeWal, kv, snapdir, temp, applied, base, made>>

WalGetEntriesFrom(start_index) ==
    /\ UNCHANGED <<clusterVars, install>>
    /\ call' = Called("getEntriesFrom", <<start_index>>, getEntriesFrom(nodeWal, start_index))
    /\ UNCHANGED <<nodeWal, kv, snapdir, temp, applied, base, made>>

WalGetLastLogInfo ==
    /\ UNCHANGED <<clusterVars, install>>
    /\ call' = Called("getLastLogInfo", <<>>, getLastLogInfo(nodeWal))
    /\ UNCHANGED <<nodeWal, kv, snapdir, temp, applied, base, made>>

WalGetFirstLogIndex ==
    /\ UNCHANGED <<clusterVars, install>>
    /\ call' = Called("getFirstLogIndex", <<>>, getFirstLogIndex(nodeWal))
    /\ UNCHANGED <<nodeWal, kv, snapdir, temp, applied, base, made>>

WalTruncateFrom(index) ==
    /\ UNCHANGED <<clusterVars, install>>
    /\ nodeWal' = truncateFrom(nodeWal, index)
    /\ call' = Called("truncateFrom", <<index>>, <<>>)
    /\ UNCHANGED <<kv, snapdir, temp, applied, base, made>>

\* the process dies inside the persistCache of truncateFrom and is started
\* again
CrashInTruncateFrom(index, written) ==
    /\ UNCHANGED <<clusterVars, install>>
    /\ index >= 1 /\ index <= Len(nodeWal.log_cache)
    /\ written <= index - 1
    /\ nodeWal' = rebuildCache(persistCacheCut(truncateFromCache(nodeWal, index), written))
    /\ call' = Called("crash in truncateFrom", <<index>>, <<>>)
    /\ UNCHANGED <<kv, snapdir, temp, applied, base, made>>

\* index and term of the prefix that discardEntriesBefore(snapshot_index)
\* removes from w (base unchanged when it removes nothing)
discardedBase(w, snapshot_index) ==
    IF cachePosition(w, snapshot_index) = 0 THEN base
    ELSE [index |-> snapshot_index,
          term |-> w.log_cache[cachePosition(w, snapshot_index)].term]

WalDiscardEntriesBefore(snapshot_index) ==
    /\ UNCHANGED <<clusterVars, install>>
    /\ nodeWal' = discardEntriesBefore(nodeWal, snapshot_index)
    /\ base' = discardedBase(nodeWal, snapshot_index)
    /\ call' = Called("discardEntriesBefore", <<snapshot_index>>, <<>>)
    /\ UNCHANGED <<kv, snapdir, temp, applied, made>>

\* the process dies inside the persistCache of discardEntriesBefore and is
\* started again
CrashInDiscardEntriesBefore(snapshot_index, written) ==
    /\ UNCHANGED <<clusterVars, install>>
    /\ cachePosition(nodeWal, snapshot_index) # 0
    /\ written <= Len(nodeWal.log_cache) - cachePosition(nodeWal, snapshot_index)
    /\ nodeWal' = rebuildCache(persistCacheCut(
                  discardEntriesBeforeCache(nodeWal, snapshot_index), written))
    /\ call' = Called("crash in discardEntriesBefore", <<snapshot_index>>, <<>>)
    /\ UNCHANGED <<kv, snapdir, temp, applied, base, made>>

WalInstallSnapshot(last_included_index, last_included_term) ==
    /\ UNCHANGED <<clusterVars, install>>
    /\ nodeWal' = installSnapshot(nodeWal, last_included_index, last_included_term)
    /\ base' = [index |-> last_included_index, term |-> last_included_term]
    /\ call' = Called("installSnapshot",
                      <<last_included_index, last_included_term>>, <<>>)
    /\ UNCHANGED <<kv, snapdir, temp, applied, made>>

WalSaveMetadata(t, v) ==
    /\ UNCHANGED <<clusterVars, install>>
    /\ nodeWal' = saveMetadata(nodeWal, t, v)
    /\ call' = Called("saveMetadata", <<t, v>>, <<>>)
    /\ UNCHANGED <<kv, snapdir, temp, applied, base, made>>

\* the process dies inside saveMetadata and is started again
CrashInSaveMetadata(t, v) ==
    /\ UNCHANGED <<clusterVars, install>>
    /\ nodeWal' = rebuildCache(saveMetadataCut(nodeWal))
    /\ call' = Called("crash in saveMetadata", <<t, v>>, nodeWal.meta)
    /\ UNCHANGED <<kv, snapdir, temp, applied, base, made>>

\* loadMetadata into two variables of the caller; voted_for holds v before
\* the call
WalLoadMetadata(v) ==
    /\ UNCHANGED <<clusterVars, install>>
    /\ call' = Called("loadMetadata", <<>>,
                      loadMetadata(nodeWal, [current_term |-> 0, voted_for |-> v]))
    /\ UNCHANGED <<nodeWal, kv, snapdir, temp, applied, base, made>>

\* the process is stopped and started again: WriteAheadLog's constructor
WalRestart ==
    /\ UNCHANGED <<clusterVars, install>>
    /\ nodeWal' = rebuildCache(nodeWal)
    /\ call' = Called("restart", <<>>, <<>>)
    /\ UNCHANGED <<kv, snapdir, temp, applied, base, made>>

(* --------------- one node: log, KV map and snapshots ------------------ *)
NodeKeys == {"x", "y"}

NodeValues == {PutValue(i) : i \in 1..MaxLogLen}

\* the term the node is in
NodeTerm == 1

\* The node takes a PUT: the next entry of its log (the index after the
\* last entry it applied) goes to appendEntry, then to the KV map.
NodePut(k, v) ==
    /\ UNCHANGED <<clusterVars, install>>
    /\ Len(applied) < MaxLogLen
    /\ v = PutValue(Len(applied) + 1)
    /\ nodeWal' = appendEntry(nodeWal, LogEntry(Len(applied) + 1, NodeTerm, k, v))
    /\ kv' = KVPut(kv, k, v)
    /\ applied' = Append(applied, LogEntry(Len(applied) + 1, NodeTerm, k, v))
    /\ call' = Called("put", <<>>, <<>>)
    /\ UNCHANGED <<snapdir, temp, base, made>>

\* the node snapshots its KV map: createSnapshot(store, last_index,
\* last_term), last_index the index of the last entry applied, succeeds
NodeCreateSnapshot ==
    /\ UNCHANGED <<clusterVars, install>>
    /\ applied # <<>>
    /\ snapdir' = createSnapshot(snapdir, kv, Len(applied), NodeTerm)
    /\ temp' = NoFile
    /\ made' = made \cup {Len(applied)}
    /\ call' = Called("createSnapshot", <<Len(applied), NodeTerm>>, TRUE)
    /\ UNCHANGED <<nodeWal, kv, applied, base>>

\* discardEntriesBefore(snapshot_index), called once a snapshot at
\* snapshot_index exists
NodeDiscardEntriesBefore(snapshot_index) ==
    /\ UNCHANGED <<clusterVars, install>>
    /\ snapshot_index \in DOMAIN snapdir
    /\ nodeWal' = discardEntriesBefore(nodeWal, snapshot_index)
    /\ base' = discardedBase(nodeWal, snapshot_index)
    /\ call' = Called("discardEntriesBefore", <<snapshot_index>>, <<>>)
    /\ UNCHANGED <<kv, snapdir, temp, applied, made>>

\* the maps a caller passes to createSnapshot
SnapshotData == {KVPut(EmptyStore, "x", PutValue(1))}

\* createSnapshot(data, last_index, last_term) succeeds
SnapCreateSnapshot(data, last_index) ==
    /\ UNCHANGED <<clusterVars, install>>
    /\ snapdir' = createSnapshot(snapdir, data, last_index, NodeTerm)
    /\ temp' = NoFile
    /\ made' = made \cup {last_index}
    /\ call' = Called("createSnapshot", <<last_index, NodeTerm>>, TRUE)
    /\ UNCHANGED <<nodeWal, kv, applied, base>>

\* the process is killed inside createSnapshot(data, last_index, last_term)
\* before the rename: the temp file is left with the first `written` tokens,
\* the connection of a transfer in progress is lost
CrashInCreateSnapshot(data, last_index, written) ==
    /\ UNCHANGED clusterVars
    /\ written \in 0..Len(SnapshotText(data, last_index, NodeTerm))
    /\ temp' = FileOf(SubSeq(SnapshotText(data, last_index, NodeTerm), 1, written))
    /\ install' = NoInstall
    /\ call' = Called("crash in createSnapshot", <<last_index, NodeTerm>>, <<>>)
    /\ UNCHANGED <<nodeWal, kv, snapdir, applied, base, made>>

\* the snapshot directories of the leaders that may stream their latest
\* snapshot to this node
LeaderSnapshots ==
    {[i \in {idx} |-> SnapshotText(d, idx, NodeTerm)] :
        d \in SnapshotData, idx \in 1..MaxIndex}

\* One step of a chunked transfer: the leader reads the next chunk of its
\* latest snapshot with readSnapshotChunk, the node writes it at the same
\* offset with writeSnapshotChunk; a short or empty read is the last chunk.
\* The first step of a transfer starts at offset 0 of the snapshot of `from`.
NodeWriteSnapshotChunk(from) ==
    LET src == IF install.active THEN install.from ELSE from
        offset == IF install.active THEN install.next ELSE 0
        data == readSnapshotChunk(src, offset, ChunkSize)
        is_last == Len(data) < ChunkSize
        r == writeSnapshotChunk(snapdir, temp, offset, data, is_last)
    IN /\ UNCHANGED clusterVars
       /\ snapdir' = r.dir
       /\ temp' = r.temp
       /\ made' = made \cup (DOMAIN r.dir \ DOMAIN snapdir)
       /\ install' = [active |-> ~is_last, from |-> src,
                      next |-> offset + Len(data),
                      ok |-> r.ok /\ (install.active => install.ok)]
       /\ call' = Called("writeSnapshotChunk", <<offset>>,
                         [ok |-> r.ok, is_last |-> is_last])
       /\ UNCHANGED <<nodeWal, kv, applied, base>>

NodeLoadSnapshot ==
    /\ UNCHANGED <<clusterVars, install>>
    /\ call' = Called("loadSnapshot", <<>>, loadSnapshot(snapdir))
    /\ UNCHANGED <<nodeWal, kv, snapdir, temp, applied, base, made>>

\* the process is stopped and started again: WriteAheadLog's constructor,
\* then Server::Server replays the log into the empty store
NodeRestart ==
    /\ UNCHANGED <<clusterVars, install>>
    /\ nodeWal' = rebuildCache(nodeWal)
    /\ kv' = replay(EmptyStore, rebuildCache(nodeWal).log_cache)
    /\ call' = Called("restart", <<>>, <<>>)
    /\ UNCHANGED <<snapdir, temp, applied, base, made>>

(* --------------------------- specifications --------------------------- *)
\* startElection and the REQUEST_VOTE handlers
ElectionStep ==
    \/ \E n \in Nodes : StartElection(n)
    \/ \E n \in Nodes : ElectionConnectFail(n)
    \/ \E n \in Nodes : ElectionSend(n)
    \/ \E h \in rpcs : RequestVoteBegin(h)
    \/ \E h \in rpcs : RequestVoteCheck(h)
    \/ \E h \in rpcs : RequestVoteGrant(h)
    \/ \E n \in Nodes : ElectionDecide(n)

\* the heartbeat sender threads and the HEARTBEAT handlers
HeartbeatStep ==
    \/ \E n, p \in Nodes : Heartbeat(n, p)
    \/ \E n \in Nodes : HeartbeatSenderExit(n)

\* client PUTs and their replication
WriteStep ==
    \/ \E n \in Nodes, k \in Keys, v \in Values : Put(n, k, v)
    \/ \E p \in puts : ReplicateConnectFail(p)
    \/ \E p \in puts : ReplicateSend(p)

CrashStep == \E n \in Nodes : Restart(n)

\* The whole cluster.
Next == ElectionStep \/ HeartbeatStep \/ WriteStep \/ CrashStep

Spec == Init /\ [][Next]_vars

\* The cluster with no client: elections, heartbeats, crashes and restarts.
NextElection == ElectionStep \/ HeartbeatStep \/ CrashStep

SpecElection == Init /\ [][NextElection]_vars

\* The cluster with no client and no crash: elections and heartbeats.
NextVotes == ElectionStep \/ HeartbeatStep

SpecVotes == Init /\ [][NextVotes]_vars

\* The cluster serving client PUTs while elections run.
NextWrites == ElectionStep \/ WriteStep

SpecWrites == Init /\ [][NextWrites]_vars

\* The log interface of the WriteAheadLog of one node, called in any order,
\* with crashes inside the calls that rewrite the log file.
WalStep ==
    \/ \E e \in Entries : WalAppendEntry(e)
    \/ \E i \in 0..(MaxIndex + 1) : WalGetEntry(i)
    \/ \E i \in 0..(MaxIndex + 1) : WalGetEntriesFrom(i)
    \/ WalGetLastLogInfo
    \/ WalGetFirstLogIndex
    \/ \E i \in 0..(MaxIndex + 1) : WalTruncateFrom(i)
    \/ \E i \in 1..MaxIndex, n \in 0..MaxLogLen : CrashInTruncateFrom(i, n)
    \/ \E i \in 1..(MaxIndex + 1) : WalDiscardEntriesBefore(i)
    \/ \E i \in 1..MaxIndex, n \in 0..MaxLogLen : CrashInDiscardEntriesBefore(i, n)
    \/ \E i \in 1..MaxIndex, t \in 1..MaxTerm : WalInstallSnapshot(i, t)
    \/ WalRestart

NextWal == WalStep

SpecWal == Init /\ [][NextWal]_vars

\* The metadata interface of the WriteAheadLog of one node, with crashes
\* inside saveMetadata.
MetaStep ==
    \/ \E t \in 1..MaxTerm, v \in {NONE} \cup Nodes : WalSaveMetadata(t, v)
    \/ \E t \in 1..MaxTerm, v \in {NONE} \cup Nodes : CrashInSaveMetadata(t, v)
    \/ \E v \in {NONE} \cup Nodes : WalLoadMetadata(v)
    \/ \E i \in 1..MaxIndex, t \in 1..MaxTerm : WalInstallSnapshot(i, t)
    \/ WalRestart

NextMeta == MetaStep

SpecMeta == Init /\ [][NextMeta]_vars

\* One node that takes PUTs, snapshots its KV map, compacts its log and
\* restarts.
NodeStep ==
    \/ \E k \in NodeKeys, v \in NodeValues : NodePut(k, v)
    \/ NodeCreateSnapshot
    \/ \E i \in 1..MaxIndex : NodeDiscardEntriesBefore(i)
    \/ NodeLoadSnapshot
    \/ NodeRestart

NextNode == NodeStep

SpecNode == Init /\ [][NextNode]_vars

\* One node that takes PUTs, is handed snapshots and compacts its log.
CompactStep ==
    \/ \E k \in NodeKeys, v \in NodeValues : NodePut(k, v)
    \/ \E d \in SnapshotData, i \in 1..MaxIndex : SnapCreateSnapshot(d, i)
    \/ \E i \in 1..MaxIndex : NodeDiscardEntriesBefore(i)

NextCompact == CompactStep

SpecCompact == Init /\ [][NextCompact]_vars

\* The SnapshotManager of one node: snapshots created at any index and
\* snapshots received in chunks, crashes inside createSnapshot.
SnapStep ==
    \/ \E d \in SnapshotData, i \in 1..MaxIndex : SnapCreateSnapshot(d, i)
    \/ \E d \in SnapshotData, i \in 1..MaxIndex, written \in 0..(4 + 2 * Cardinality(NodeKeys)) :
           CrashInCreateSnapshot(d, i, written)
    \/ \E from \in LeaderSnapshots : NodeWriteSnapshotChunk(from)
    \/ NodeLoadSnapshot

NextSnap == SnapStep

SpecSnap == Init /\ [][NextSnap]_vars

\* The cluster after the node it was started with as leader has failed for
\* good: that node takes no step and no connection to it succeeds, the
\* other nodes run their election, handler and heartbeat threads.
Live == {n \in Nodes : RoleHint(n) # "LEADER"}

\* the lowest term a live node or a message in flight holds
LowestTerm(terms, msgs) ==
    LET held == {terms[m] : m \in Live} \cup {h.term : h \in msgs}
    IN CHOOSE t \in held : \A u \in held : t <= u

\* startElection entered from the heartbeat monitor, as StartElection. The
\* code only compares terms and adds one to them, so the terms are counted
\* from the lowest term still held, which keeps them in 0..MaxTerm however
\* many elections are run.
LiveStartElection(n) ==
    LET raised == [current_term EXCEPT ![n] = @ + 1]
        low == LowestTerm(raised, rpcs)
        vote == [voter |-> n, term |-> raised[n], cand |-> n]
    IN /\ UNCHANGED nodeVars
       /\ HasMonitor(n)
       /\ elec[n].pc = "idle"
       /\ role[n] = "FOLLOWER"
       /\ current_term[n] < MaxTerm
       /\ current_term' = [m \in Nodes |->
                              IF m \in Live THEN raised[m] - low ELSE current_term[m]]
       /\ voted_for' = [voted_for EXCEPT ![n] = n]
       /\ role' = [role EXCEPT ![n] = "CANDIDATE"]
       /\ elec' = [elec EXCEPT ![n] = [pc |-> "loop", votes |-> 1, i |-> 1]]
       /\ rpcs' = {[h EXCEPT !.term = @ - low] : h \in rpcs}
       /\ grants' = {[g EXCEPT !.term = @ - low] :
                        g \in {x \in grants \cup {vote} : x.term >= low}}
       /\ UNCHANGED <<store, wal, puts, hbSenders, replies, nputs, restarts>>

\* startElection: connect to the failed node fails
LiveElectionConnectFail(n) ==
    /\ ElectionConnectFail(n)
    /\ Peers(n)[elec[n].i] \notin Live

\* startElection: connect to a live node succeeds
LiveElectionSend(n) ==
    /\ ElectionSend(n)
    /\ Peers(n)[elec[n].i] \in Live

\* startElection after the loop; the number of heartbeat senders a node has
\* started and that have not yet ended is kept within MaxTerm + 1
LiveElectionDecide(n) ==
    /\ ElectionDecide(n)
    /\ hbSenders'[n] <= MaxTerm + 1

\* the thread that runs the heartbeat monitor and startElection on node n
ElectionThread(n) ==
    \/ LiveStartElection(n)
    \/ LiveElectionConnectFail(n)
    \/ LiveElectionSend(n)
    \/ LiveElectionDecide(n)

\* the handler threads of node n
HandlerThreads(n) ==
    \E h \in rpcs :
        /\ h.at = n
        /\ (RequestVoteBegin(h) \/ RequestVoteCheck(h) \/ RequestVoteGrant(h))

\* the heartbeat sender threads of node n
SenderThreads(n) ==
    \/ \E p \in Live : Heartbeat(n, p)
    \/ HeartbeatSenderExit(n)

NextLive ==
    \/ \E n \in Live : LiveStartElection(n)
    \/ \E n \in Live : LiveElectionConnectFail(n)
    \/ \E n \in Live : LiveElectionSend(n)
    \/ \E h \in rpcs : RequestVoteBegin(h)
    \/ \E h \in rpcs : RequestVoteCheck(h)
    \/ \E h \in rpcs : RequestVoteGrant(h)
    \/ \E n \in Live : LiveElectionDecide(n)
    \/ \E n, p \in Live : Heartbeat(n, p)
    \/ \E n \in Live : HeartbeatSenderExit(n)

\* every thread of a live node that can take a step eventually takes one
SpecLive ==
    /\ Init
    /\ [][NextLive]_vars
    /\ \A n \in Live :
          /\ WF_vars(ElectionThread(n))
          /\ WF_vars(HandlerThreads(n))
          /\ WF_vars(SenderThreads(n))

\* The two quorum tests taken alone, for clusters of every size up to
\* MaxPeers + 1 and every count of votes or acknowledgements: the state
\* starts with the inputs, each action applies one test to them.
QuorumInputs ==
    {Called("input", <<peers, c>>, <<>>) : peers \in 0..MaxPeers, c \in 0..(MaxPeers + 1)}

InitQuorum ==
    /\ InitRest
    /\ call \in QuorumInputs

\* startElection's test on `votes` votes, the candidate's own counted
QuorumElection ==
    /\ UNCHANGED <<clusterVars, install>>
    /\ call.op = "input"
    /\ call' = Called("startElection", call.arg, electionWon(call.arg[1], call.arg[2]))
    /\ UNCHANGED <<nodeWal, kv, snapdir, temp, applied, base, made>>

\* replicatePut's test on `acks` acknowledgements, the leader's own counted
QuorumReplicate ==
    /\ UNCHANGED <<clusterVars, install>>
    /\ call.op = "input"
    /\ call' = Called("replicatePut", call.arg, replicatePutResult(call.arg[1], call.arg[2]))
    /\ UNCHANGED <<nodeWal, kv, snapdir, temp, applied, base, made>>

NextQuorum == QuorumElection \/ QuorumReplicate

SpecQuorum == InitQuorum /\ [][NextQuorum]_vars

(* ------------------------------ sanity -------------------------------- *)
Roles == {"LEADER", "FOLLOWER", "CANDIDATE"}

TypeOK ==
    /\ role \in [Nodes -> Roles]
    /\ current_term \in [Nodes -> 0..MaxTerm]
    /\ voted_for \in [Nodes -> Nodes \cup {NONE}]
    /\ \A n \in Nodes :
          /\ wal[n].log_cache = wal[n].file
          /\ store[n] = replay(EmptyStore, wal[n].log_cache)
          /\ \A i \in DOMAIN wal[n].log_cache : wal[n].log_cache[i].index = i
          /\ elec[n].pc \in {"idle", "loop", "wait"}
          /\ elec[n].pc = "wait" <=>
                \E h \in rpcs : h.from = n /\ h.live
          /\ hbSenders[n] \in 0..(MaxTerm + 1)
    /\ \A h \in rpcs : h.at # h.from /\ h.term \in 1..MaxTerm
    /\ \A p \in puts : HasReplicator(p.at) /\ p.i \in 1..Len(Peers(p.at))
    /\ nputs \in 0..MaxPuts
    /\ restarts \in 0..MaxRestarts

(* ------------------------------- claims ------------------------------- *)
Leaders == {n \in Nodes : role[n] = "LEADER"}

\* strict majority of the cluster: floor(n/2) + 1
Quorum == Cardinality(Nodes) \div 2 + 1

Range(q) == {q[i] : i \in DOMAIN q}

OkReplies == {r \in Range(replies) : r.resp = "OK"}

\* the PUTs answered OK by a node that was LEADER when it took them
LeaderOkReplies == {r \in OkReplies : r.roleSeen = "LEADER"}

\* C1: election safety - for every term there is at most one node that is
\* LEADER with that current_term.
ElectionSafety ==
    \A a, b \in Leaders : current_term[a] = current_term[b] => a = b

\* C2: a leader answers a client PUT with OK only after a strict majority of
\* the cluster (the leader counted) has acknowledged its entry.
PutOkOnlyAfterMajority ==
    \A r \in LeaderOkReplies : r.acks >= Quorum

\* C3: no lost acknowledgements - once a leader has answered PUT k v with OK,
\* a GET k on any node that is LEADER returns v or the value of a PUT to k
\* issued later, never NOT_FOUND and never an older value.
NoLostAcks ==
    \A r \in LeaderOkReplies : \A n \in Leaders :
        KVGet(store[n], r.key) \in
            {q.value : q \in {x \in OkReplies : x.key = r.key /\ x.id >= r.id}}
            \cup {p.value : p \in {x \in puts : x.key = r.key /\ x.id >= r.id}}

\* the operations of a log, in log order
LogOps(w) == [i \in DOMAIN w.log_cache |->
                <<w.log_cache[i].key, w.log_cache[i].value>>]

\* C4: replica convergence - when several PUTs have been accepted by one
\* leader, no request is in flight and every follower acknowledged each of
\* them, every follower holds the leader's operations in the leader's order
\* and the leader's key-to-value map.
ReplicaConvergence ==
    \A l \in Nodes :
        ( /\ puts = {}
          /\ Cardinality(OkReplies) >= 2
          /\ \A r \in OkReplies : r.at = l /\ r.acks = Cardinality(Nodes) )
        => \A f \in Nodes : LogOps(wal[f]) = LogOps(wal[l]) /\ store[f] = store[l]

\* C5: log matching - if two nodes hold entries with the same index and the
\* same term, the two entries are equal and so are the entries of the two
\* logs at every lower index.
LogMatching ==
    \A a, b \in Nodes :
        \A e \in Range(wal[a].log_cache) : \A g \in Range(wal[b].log_cache) :
            (e.index = g.index /\ e.term = g.term) =>
                /\ e = g
                /\ \A d \in Range(wal[a].log_cache) : \A c \in Range(wal[b].log_cache) :
                       (d.index = c.index /\ d.index < e.index) => d = c

\* C6: the current_term of a node never decreases, whatever step is taken
\* (election, vote request, heartbeat, crash and restart).
TermNeverDecreases ==
    [][\A n \in Nodes : current_term'[n] >= current_term[n]]_vars

\* C7: one vote per term - a node casts its vote (VOTE_GRANTED, or its own
\* self vote) for at most one candidate in any term.
OneVotePerTerm ==
    \A g, h \in grants : (g.voter = h.voter /\ g.term = h.term) => g.cand = h.cand

\* the candidate's log (last index c.index, last term c.term) is at least as
\* up-to-date as the voter's
UpToDate(c, v) == c.term > v.term \/ (c.term = v.term /\ c.index >= v.index)

\* C8: VOTE_GRANTED is sent only to a candidate whose log is at least as
\* up-to-date as the log of the node that grants the vote.
VoteOnlyForUpToDateLog ==
    [][\A g \in grants' \ grants :
          g.cand # g.voter =>
              UpToDate(getLastLogInfo(wal[g.cand]), getLastLogInfo(wal[g.voter]))]_vars

\* C9: vote durability - when VOTE_GRANTED has been sent for term T to a
\* candidate, the metadata file of the voter holds (T, candidate) or a later
\* term.
VoteDurability ==
    \A g \in grants :
        g.cand # g.voter =>
            LET m == loadMetadata(wal[g.voter], [current_term |-> 0, voted_for |-> NONE])
            IN m.current_term > g.term
               \/ (m.current_term = g.term /\ m.voted_for = g.cand)

\* C10: a PUT that arrives at a node whose role is not LEADER is answered
\* NOT_LEADER and leaves the WAL and the KV map of the node as they were.
PutAtNonLeaderRejected ==
    [][\A n \in Nodes :
          (nputs' = nputs + 1 /\ role[n] # "LEADER"
             /\ \/ \E p \in puts' \ puts : p.at = n
                \/ Len(replies') > Len(replies) /\ replies'[Len(replies')].at = n)
          => /\ wal'[n] = wal[n]
             /\ store'[n] = store[n]
             /\ Len(replies') > Len(replies)
             /\ replies'[Len(replies')].resp = "NOT_LEADER"]_vars

\* the index of the last entry of the live log of w (first index - 1 when
\* the live log is empty)
LastIndex(w) ==
    IF w.log_cache = <<>> THEN getFirstLogIndex(w) - 1
    ELSE w.log_cache[Len(w.log_cache)].index

\* the entries of w are the gap-free range that starts right after the
\* prefix covered by a snapshot
WellFormed(w) ==
    /\ getFirstLogIndex(w) = base.index + 1
    /\ \A i \in DOMAIN w.log_cache : w.log_cache[i].index = base.index + i

\* C11: compaction round trip across a restart - when the node has applied
\* entries 1..n, holds a snapshot at an index k <= n with the state at k, and
\* has compacted its log up to k, a restart leaves the answer of GET the
\* same for every key.
CompactionRoundTrip ==
    [][LET snap == loadSnapshot(snapdir)
           k == snap.metadata.last_included_index
       IN ( /\ call'.op = "restart"
            /\ kv = replay(EmptyStore, applied)
            /\ snap.ok
            /\ k <= Len(applied)
            /\ snap.data = replay(EmptyStore, SubSeq(applied, 1, k))
            /\ base.index = k
            /\ nodeWal.log_cache = SubSeq(applied, k + 1, Len(applied)) )
          => \A key \in NodeKeys : KVGet(kv', key) = KVGet(kv, key)]_vars

\* C12: when a snapshot creation at index k reports success, the first index
\* of the WAL is k + 1 and no entry with an index <= k is left in the live
\* log.
SnapshotCreationCompacts ==
    [][(call'.op = "createSnapshot" /\ call'.ret = TRUE)
          => /\ getFirstLogIndex(nodeWal') = call'.arg[1] + 1
             /\ \A i \in DOMAIN nodeWal'.log_cache :
                    nodeWal'.log_cache[i].index > call'.arg[1]]_vars

\* C13: log continuity - after any sequence of appendEntry, truncateFrom,
\* discardEntriesBefore and installSnapshot the indices of the live log are
\* the gap-free ascending range from first_index >= 1, first_index is
\* last_included_index + 1 once a snapshot is installed, and an append whose
\* index is not last_index + 1 is not admitted.
LogContinuity ==
    [][/\ getFirstLogIndex(nodeWal') >= 1
       /\ \A i \in DOMAIN nodeWal'.log_cache :
              nodeWal'.log_cache[i].index = getFirstLogIndex(nodeWal') + i - 1
       /\ base'.index > 0 => getFirstLogIndex(nodeWal') = base'.index + 1
       /\ (call'.op = "appendEntry" /\ call'.arg[1] # LastIndex(nodeWal) + 1)
              => nodeWal'.log_cache = nodeWal.log_cache]_vars

\* C14: getEntry(index) returns the entry whose index field is index exactly
\* when first_index <= index <= last_index, and reports a missing entry
\* otherwise, also when a prefix of the log has been compacted away.
GetEntryByIndex ==
    (call.op = "getEntry" /\ WellFormed(nodeWal))
        => IF getFirstLogIndex(nodeWal) <= call.arg[1]
               /\ call.arg[1] <= LastIndex(nodeWal)
           THEN call.ret.found /\ call.ret.entry.index = call.arg[1]
           ELSE ~call.ret.found

\* C15: truncateFrom(index) removes exactly the entries whose index field is
\* >= index and keeps every entry with a smaller index, in the cache and in
\* the rewritten file, also when a prefix of the log has been compacted away.
TruncateFromByIndex ==
    [][(call'.op = "truncateFrom" /\ call'.arg[1] >= 1 /\ WellFormed(nodeWal))
          => LET kept == SelectSeq(nodeWal.log_cache,
                                   LAMBDA e : e.index < call'.arg[1])
             IN nodeWal'.log_cache = kept /\ nodeWal'.file = kept]_vars

\* C16: getLastLogInfo returns (0, 0) only when the log is empty and no
\* snapshot is installed; with an empty live log after a snapshot was
\* installed or a prefix compacted it returns the index and term of that
\* snapshot; otherwise the index and term of the tail entry.
LastInfoCoversSnapshot ==
    call.op = "getLastLogInfo"
        => call.ret =
              IF nodeWal.log_cache # <<>>
              THEN [index |-> nodeWal.log_cache[Len(nodeWal.log_cache)].index,
                    term |-> nodeWal.log_cache[Len(nodeWal.log_cache)].term]
              ELSE base

\* a snapshot file that holds all of a snapshot: the header and as many
\* pairs as the header announces, no byte missing
CompleteSnapshot(text) ==
    /\ Len(text) >= 4
    /\ text[1] = Magic
    /\ Len(text) = 4 + 2 * ParseInt(text[4])
    /\ \A i \in DOMAIN text : text[i] # Hole

\* C17: discardEntriesBefore(up_to), for every up_to covered by a snapshot
\* (also one beyond the last index of the log or one whose index is not in
\* the live log): afterwards no entry with index <= up_to is left and every
\* entry with index > up_to is kept, unchanged and in order.
DiscardPrefixByIndex ==
    [][( /\ call'.op = "discardEntriesBefore"
         /\ call'.arg[1] \in DOMAIN snapdir
         /\ CompleteSnapshot(snapdir[call'.arg[1]])
         /\ WellFormed(nodeWal) )
          => nodeWal'.log_cache =
                 SelectSeq(nodeWal.log_cache, LAMBDA e : e.index > call'.arg[1])]_vars

\* the pair a metadata file holds
PairOf(text) == [current_term |-> text[1], voted_for |-> text[2]]

\* C18: election metadata is rewritten atomically - loadMetadata after a
\* completed saveMetadata(t, v) returns (t, v), and after a crash inside
\* saveMetadata(t, v) it returns the pair saved before or (t, v).
MetadataAtomic ==
    [][call'.op = "loadMetadata" =>
          /\ call.op = "saveMetadata"
                => call'.ret = [current_term |-> call.arg[1], voted_for |-> call.arg[2]]
          /\ (call.op = "crash in saveMetadata" /\ call.ret.text # <<>>)
                => call'.ret \in {PairOf(call.ret.text),
                                  [current_term |-> call.arg[1],
                                   voted_for |-> call.arg[2]]}]_vars

\* C19: log rewrites are crash-atomic - after a crash inside truncateFrom or
\* discardEntriesBefore the log file holds either all it held before the
\* call or all it holds after the completed call.
RewriteCrashAtomic ==
    [][/\ (call'.op = "crash in truncateFrom" /\ WellFormed(nodeWal))
            => nodeWal'.file \in {nodeWal.file,
                                  truncateFrom(nodeWal, call'.arg[1]).file}
       /\ (call'.op = "crash in discardEntriesBefore" /\ WellFormed(nodeWal))
            => nodeWal'.file \in {nodeWal.file,
                                  discardEntriesBefore(nodeWal, call'.arg[1]).file}]_vars

ChunkedTransferRoundTrip ==
    (call.op = "writeSnapshotChunk" /\ call.ret.is_last)
        => /\ install.ok
           /\ findLatestSnapshot(snapdir) # -1
           /\ snapdir[findLatestSnapshot(snapdir)] =
                  install.from[findLatestSnapshot(install.from)]
           /\ loadSnapshot(snapdir).metadata = loadSnapshot(install.from).metadata

\* C22: one snapshot operation at a time - between the offset-0 chunk and the
\* is_last chunk of a chunked install a createSnapshot of the node does not
\* take effect (it changes neither the snapshot files nor the temp file),
\* and the file the is_last chunk puts in place holds the bytes of that
\* install's chunks and nothing else.
SnapshotOperationsExclusive ==
    [][/\ (install.active /\ call'.op = "createSnapshot")
            => (snapdir' = snapdir /\ temp' = temp)
       /\ (install.active /\ call'.op = "writeSnapshotChunk" /\ call'.ret.is_last)
            => \A i \in DOMAIN snapdir' :
                   (i \notin DOMAIN snapdir \/ snapdir'[i] # snapdir[i])
                       => snapdir'[i] =
                              install.from[findLatestSnapshot(install.from)]]_vars

NoLeaderFromStaleElection ==
    \A n \in Leaders :
        current_term[n] > InitialTerm
            => Cardinality({g.voter : g \in {x \in grants :
                                x.cand = n /\ x.term = current_term[n]}}) >= Quorum

\* C25: ticker exclusivity - on every node the election ticker (the
\* heartbeat monitor) runs while the role is FOLLOWER or CANDIDATE and the
\* heartbeat ticker (a heartbeat sender) runs while the role is LEADER, and
\* there are never two heartbeat senders. A sender that has not yet seen the
\* role change at the top of its loop is not counted against the claim.
TickerExclusivity ==
    \A n \in Nodes :
        /\ role[n] \in {"FOLLOWER", "CANDIDATE"} => HasMonitor(n)
        /\ role[n] = "LEADER" => hbSenders[n] >= 1
        /\ hbSenders[n] <= 1

\* C26: election liveness - the leader has failed for good and the other
\* nodes, a strict majority, are alive and reach each other: under fair
\* scheduling some live node eventually becomes LEADER.
ElectionLiveness ==
    <>(\E n \in Live : role[n] = "LEADER")

\* in the cluster without its first leader the terms, counted from the
\* lowest one held, never reach the bound that stops elections
TermBoundNotReached ==
    \A n \in Live : current_term[n] < MaxTerm

\* C27: stale leaders are rejected - a node takes a replication message
\* (appends it to its log, applies it to its KV map) only when the term of
\* the sender is >= its own current_term; a replication message from a
\* sender with a lower term leaves the log and the KV map of the receiver
\* unchanged.
StaleLeaderRejected ==
    [][\A p \in puts :
           (ReplicateSend(p) /\ current_term[p.at] < current_term[Peers(p.at)[p.i]])
               => /\ wal'[Peers(p.at)[p.i]] = wal[Peers(p.at)[p.i]]
                  /\ store'[Peers(p.at)[p.i]] = store[Peers(p.at)[p.i]]]_vars

\* C28: state derivation - the KV map of a node holds the entries up to
\* commit_index and no other; in particular a GET on the leader never
\* returns the value of a PUT that a majority has not yet acknowledged.
GetReturnsOnlyAcknowledged ==
    \A p \in puts :
        (role[p.at] = "LEADER" /\ p.acks < Quorum)
            => KVGet(store[p.at], p.key) # p.value

\* C29: quorum threshold - for a cluster of n = peers + 1 nodes and a count
\* c of votes or acknowledgements (the node's own counted), the election
\* win test and the replication success test both hold exactly when
\* c >= floor(n / 2) + 1.
QuorumThreshold ==
    call.op \in {"startElection", "replicatePut"}
        => (call.ret <=> call.arg[2] >= (call.arg[1] + 1) \div 2 + 1)

\* replicatePut has succeeded with exactly floor(n / 2) + 1 acknowledgements
\* in a cluster of even size
ReplicationAtThreshold ==
    /\ call.op = "replicatePut"
    /\ call.ret
    /\ (call.arg[1] + 1) % 2 = 0
    /\ call.arg[2] = (call.arg[1] + 1) \div 2 + 1

\* C30: WAL restart equivalence - a WriteAheadLog constructed on the file
\* of an instance that went through any sequence of appendEntry,
\* truncateFrom, discardEntriesBefore and installSnapshot has the same
\* entries in the same order and the same getFirstLogIndex() as that
\* instance, also when the live log was left empty.
WalRestartEquivalence ==
    [][call'.op = "restart"
          => /\ nodeWal'.log_cache = nodeWal.log_cache
             /\ getFirstLogIndex(nodeWal') = getFirstLogIndex(nodeWal)]_vars

\* the pair (current_term, voted_for) persisted by the log w
PersistedPair(w) == loadMetadata(w, [current_term |-> 0, voted_for |-> NONE])

\* C31: snapshot install leaves election metadata alone -
\* installSnapshot(last_included_index, last_included_term) on a log whose
\* pair (current_term, voted_for) has been persisted clears the live log and
\* sets the first index to last_included_index + 1; it does not lower the
\* persisted current_term and does not erase a persisted vote.
InstallSnapshotKeepsMetadata ==
    [][( /\ call'.op = "installSnapshot"
         /\ nodeWal.meta.exists
         /\ nodeWal.meta.text # <<>> )
          => /\ nodeWal'.log_cache = <<>>
             /\ getFirstLogIndex(nodeWal') = call'.arg[1] + 1
             /\ PersistedPair(nodeWal').current_term >= PersistedPair(nodeWal).current_term
             /\ PersistedPair(nodeWal).voted_for # NONE
                    => PersistedPair(nodeWal').voted_for = PersistedPair(nodeWal).voted_for]_vars

====
